---- MODULE Spec2Model ----
(***************************************************************************)
(* AudioNoiseGate of micmon.py: the constructor's derivation of the gate   *)
(* parameters and the per-block audio_callback.                            *)
(*                                                                         *)
(* Floating-point values are fixed-point integers: the float 1.0 is Scale, *)
(* and every arithmetic operation of the code rounds its result to the     *)
(* nearest multiple of 1/Scale, as a float operation rounds to the nearest *)
(* representable value.  exp, 10**x and x**0.1 are evaluated at the finer  *)
(* unit 1/Fine and then rounded.  Decibel values are integers, sample      *)
(* rates are integers (Hz) and time constants are integer microseconds.    *)
(* Blocks are non-empty sequences of finite samples.  At this resolution   *)
(* the volume of -60 dB, 0.001, rounds to 0.                               *)
(***************************************************************************)
EXTENDS Integers, Sequences, FiniteSets, TLC

VARIABLES gate, attempt, stream, local

vars == <<gate, attempt, stream, local>>

-----------------------------------------------------------------------------
(* Number representation *)

\* the fixed-point value of the float 1.0
Scale == 100

\* the finer unit in which exp and the powers are evaluated
Fine == Scale * Scale

\* time constants are given in microseconds
MicrosPerSecond == 1000000

Abs(x) == IF x < 0 THEN -x ELSE x

Max(a, b) == IF a >= b THEN a ELSE b

Min(a, b) == IF a <= b THEN a ELSE b

\* n / d rounded to the nearest integer (d > 0), halves upwards
RoundDiv(n, d) == (2 * n + d) \div (2 * d)

\* float multiplication a * b
Mul(a, b) == RoundDiv(a * b, Scale)

\* float division a / b for b > 0
Div(a, b) == RoundDiv(a * Scale, b)

RECURSIVE GCD(_, _)
GCD(a, b) == IF b = 0 THEN a ELSE GCD(b, a % b)

\* a Fine value rounded to a Scale value
FromFine(x) == RoundDiv(x, Scale)

\* a Scale value as a Fine value
ToFine(x) == x * Scale

\* floor(a * b / Fine) for 0 <= a, b <= 2000 * Fine, without leaving 32 bits
MulFine(a, b) ==
    LET ah == a \div Scale
        al == a % Scale
        bh == b \div Scale
        bl == b % Scale
    IN ah * bh + (ah * bl + al * bh + (al * bl) \div Scale) \div Scale

\* the number of terms of the exponential series that are summed
ExpTerms == 16

RECURSIVE ExpSeries(_, _, _, _)
ExpSeries(p, q, k, term) ==
    IF k > ExpTerms \/ term = 0
    THEN 0
    ELSE term + ExpSeries(p, q, k + 1, RoundDiv(term * p, q * k))

\* exp(p / q) as a Scale value, for q > 0 and |p / q| <= 4
ExpRat(p, q) == FromFine(ExpSeries(p, q, 1, Fine))

\* np.exp(-1.0 / (sample_rate * time)), the product being non-zero
ExpCoef(sample_rate, micros) ==
    LET den == sample_rate * micros
        g == GCD(MicrosPerSecond, Abs(den))
        p == IF den > 0 THEN -(MicrosPerSecond \div g) ELSE MicrosPerSecond \div g
        q == Abs(den) \div g
    IN ExpRat(p, q)

\* 10 ** (1 / 20) in millionths
TwentiethRootOfTenMillionths == 1122018

\* 10 ** (1 / 20) as a Fine value
TwentiethRootOfTen ==
    LET hi == TwentiethRootOfTenMillionths \div 1000
        lo == TwentiethRootOfTenMillionths % 1000
    IN (hi * Fine + (lo * Fine) \div 1000) \div 1000

RECURSIVE PowFine(_, _)
\* x ** k at the Fine unit, for a natural k
PowFine(x, k) == IF k = 0 THEN Fine ELSE MulFine(PowFine(x, k - 1), x)

RECURSIVE TenTo(_)
TenTo(k) == IF k = 0 THEN 1 ELSE 10 * TenTo(k - 1)

\* 10 ** (db / 20.0) for an integer db in -60 .. 20
DbToLinear(db) ==
    LET q == db \div 20
        r == db % 20
        frac == PowFine(TwentiethRootOfTen, r)
    IN IF q >= 0
       THEN FromFine(frac * TenTo(q))
       ELSE RoundDiv(frac, Scale * TenTo(-q))

RECURSIVE ISqrtIn(_, _, _)
\* the largest r in lo .. hi with r * r <= n
ISqrtIn(n, lo, hi) ==
    IF lo >= hi
    THEN lo
    ELSE LET mid == (lo + hi + 1) \div 2
         IN IF mid * mid <= n THEN ISqrtIn(n, mid, hi) ELSE ISqrtIn(n, lo, mid - 1)

\* np.sqrt of a value given in units of 1 / Scale^2, as a Scale value
Sqrt(n) ==
    LET r == ISqrtIn(n, 0, 40000)
    IN IF n - r * r > r THEN r + 1 ELSE r

RECURSIVE RootIn(_, _, _, _)
\* the least y in lo .. hi (Scale values) with y ** k >= x (a Fine value)
RootIn(x, k, lo, hi) ==
    IF lo >= hi
    THEN lo
    ELSE LET mid == (lo + hi) \div 2
         IN IF PowFine(ToFine(mid), k) >= x
            THEN RootIn(x, k, lo, mid)
            ELSE RootIn(x, k, mid + 1, hi)

\* x ** e for 0 <= x <= 1.0 and an exponent e = 1 / k, to the nearest value
Pow(x, e) ==
    LET k == Scale \div e
        y == RootIn(ToFine(x), k, 0, Scale)
    IN IF y > 0 /\ ToFine(x) - PowFine(ToFine(y - 1), k) < PowFine(ToFine(y), k) - ToFine(x)
       THEN y - 1
       ELSE y

-----------------------------------------------------------------------------
(* Inputs *)

\* the gate objects that can be constructed
Instances == {1, 2}

\* the longest block the driver delivers
MaxFrames == 2

\* the largest |current_gain| followed; a call that would leave it is not taken
GainCap == 200

\* Arguments with usable values throughout: the threshold and block size of the
\* "balanced" preset and 0 dB; a sample rate of 8000 Hz with time constants of
\* one and four sample periods, so that the coefficients exp(-1) and exp(-1/4)
\* are well apart from 1.0 at the resolution 1 / Scale (at 48000 Hz and 20 ms
\* release_coef is 0.99896, which this resolution cannot tell from 1.0).
BaseArgs ==
    [threshold |-> -25, block_size |-> 128, sample_rate |-> 8000,
     attack_time |-> 125, release_time |-> 500, volume_db |-> 0]

\* the values tried for each argument: the usable one, zero, a negative one;
\* for volume_db values below and above the range np.clip keeps
ArgValues ==
    [threshold |-> {-25, -35}, block_size |-> {128, 0}, sample_rate |-> {8000, 0, -8000},
     attack_time |-> {125, 0, -125}, release_time |-> {500, 0, -500},
     volume_db |-> {0, -999, 999}]

ArgNames == DOMAIN BaseArgs

\* the argument records tried: BaseArgs with at most one argument replaced
ArgsSet ==
    UNION {{[BaseArgs EXCEPT ![f] = v] : v \in ArgValues[f]} : f \in ArgNames}

\* sample values: silence, the amplitude of the -25 dB threshold, -0.1
SampleValues == {0, DbToLinear(-25), -(Scale \div 10)}

Blocks == UNION {[1 .. n -> SampleValues] : n \in 1 .. MaxFrames}

NoGate == [constructed |-> FALSE]

NoAttempt == [result |-> "none"]

NoStream == [indata |-> <<>>, outdata |-> <<>>]

NoLocal == [called |-> FALSE]

-----------------------------------------------------------------------------
(* AudioNoiseGate.__init__ *)

\* np.clip(x, lo, hi)
Clip(x, lo, hi) == IF x < lo THEN lo ELSE IF x > hi THEN hi ELSE x

\* -1.0 / (sample_rate * time) raises ZeroDivisionError when the product is zero
DivisionRaises(sample_rate, time) == sample_rate * time = 0

\* the exception __init__ raises for these arguments, "ok" when it returns
InitResult(a) ==
    IF DivisionRaises(a.sample_rate, a.attack_time) \/ DivisionRaises(a.sample_rate, a.release_time)
    THEN "ZeroDivisionError"
    ELSE "ok"

\* a ceiling of +20 dB in place of +12 dB
VolumeDbLooseCeiling(a) == Clip(a.volume_db, -60, 20)

\* self.volume_db
VolumeDb(a) == Clip(a.volume_db, -60, 12)

\* the attributes __init__ sets
NewGate(a) ==
    [constructed |-> TRUE,
     threshold |-> a.threshold,
     block_size |-> a.block_size,
     sample_rate |-> a.sample_rate,
     volume_db |-> VolumeDb(a),
     volume |-> DbToLinear(VolumeDb(a)),
     attack_coef |-> ExpCoef(a.sample_rate, a.attack_time),
     release_coef |-> ExpCoef(a.sample_rate, a.release_time),
     current_gain |-> Scale,
     threshold_amplitude |-> DbToLinear(a.threshold),
     inv_ratio |-> Scale \div 10]

Construct(i, a) ==
    /\ attempt[i] = NoAttempt
    /\ attempt' = [attempt EXCEPT ![i] = [result |-> InitResult(a), args |-> a]]
    /\ gate' = [gate EXCEPT ![i] = IF InitResult(a) = "ok" THEN NewGate(a) ELSE NoGate]
    /\ UNCHANGED <<stream, local>>

-----------------------------------------------------------------------------
(* AudioNoiseGate.audio_callback *)

RECURSIVE Sum(_)
Sum(xs) == IF xs = <<>> THEN 0 ELSE Head(xs) + Sum(Tail(xs))

\* np.square(audio), each square in units of 1 / Scale^2
Square(audio) == [k \in DOMAIN audio |-> audio[k] * audio[k]]

\* np.mean(xs) of a non-empty block
Mean(xs) == RoundDiv(Sum(xs), Len(xs))

\* np.sqrt(np.mean(np.square(audio)))
RmsOf(audio) == Sqrt(Mean(Square(audio)))

RECURSIVE RmsTable(_)
RmsTable(S) ==
    LET b == CHOOSE x \in S : TRUE
    IN IF S = {b} THEN b :> RmsOf(b) ELSE (b :> RmsOf(b)) @@ RmsTable(S \ {b})

\* RmsOf, evaluated once for each block
RmsMemo == RmsTable(Blocks)

\* rms
Rms(audio) == RmsMemo[audio]

RECURSIVE PowTable(_, _, _)
PowTable(lo, hi, e) ==
    IF lo = hi
    THEN lo :> Pow(lo, e)
    ELSE PowTable(lo, (lo + hi) \div 2, e) @@ PowTable((lo + hi) \div 2 + 1, hi, e)

\* Pow, evaluated once for each base in 0 .. 1.0 and the exponent 0.1
PowMemo == (Scale \div 10) :> PowTable(0, Scale, Scale \div 10)

\* the floor of the gate's gain, the literal 0.01
GateFloor == Scale \div 100

\* the soft knee without its floor
TargetGainNoFloor(g, rms) ==
    IF rms > g.threshold_amplitude
    THEN Scale
    ELSE PowMemo[g.inv_ratio][Div(rms, g.threshold_amplitude)]

\* target_gain
TargetGain(g, rms) ==
    IF rms > g.threshold_amplitude
    THEN Scale
    ELSE Max(PowMemo[g.inv_ratio][Div(rms, g.threshold_amplitude)], GateFloor)

\* the two coefficients exchanged
CoefSwapped(g, target_gain) ==
    IF target_gain > g.current_gain THEN g.release_coef ELSE g.attack_coef

\* coef
Coef(g, target_gain) ==
    IF target_gain > g.current_gain THEN g.attack_coef ELSE g.release_coef

\* the step scaled by (1 + coef)
SmoothOvershoot(current_gain, target_gain, coef) ==
    current_gain + Mul(target_gain - current_gain, Scale + coef)

\* self.current_gain after self.current_gain += (target_gain - self.current_gain) * (1 - coef)
Smooth(current_gain, target_gain, coef) ==
    current_gain + Mul(target_gain - current_gain, Scale - coef)

\* audio * self.current_gain * self.volume
Output(audio, current_gain, volume) ==
    [k \in DOMAIN audio |-> Mul(Mul(audio[k], current_gain), volume)]

\* the gain from before the envelope update
OutputGainStale(gain_before, gain_after) == gain_before

\* the gain the output line reads: self.current_gain as the envelope update left it
OutputGain(gain_before, gain_after) == gain_after

\* indata when the callback returns: audio is only read
IndataAfter(indata, current_gain, volume) == indata

\* current_gain kept once for the class instead of once for each instance
WrittenShared(i) == Instances

\* the instances whose current_gain a call on instance i writes
Written(i) == {i}

AudioCallback(i, indata) ==
    LET g == gate[i]
        rms == Rms(indata)
        target_gain == TargetGain(g, rms)
        coef == Coef(g, target_gain)
        current_gain == Smooth(g.current_gain, target_gain, coef)
    IN /\ g.constructed
       /\ Abs(current_gain) <= GainCap
       /\ gate' = [j \in Instances |->
                     IF j \in Written(i) /\ gate[j].constructed
                     THEN [gate[j] EXCEPT !.current_gain = current_gain]
                     ELSE gate[j]]
       /\ local' = [local EXCEPT ![i] =
                      [called |-> TRUE, audio |-> indata, rms |-> rms,
                       target_gain |-> target_gain, coef |-> coef,
                       gain_before |-> g.current_gain]]
       /\ stream' = [stream EXCEPT ![i] =
                       [indata |-> IndataAfter(indata, current_gain, g.volume),
                        outdata |-> Output(indata, OutputGain(g.current_gain, current_gain),
                                           g.volume)]]
       /\ UNCHANGED attempt

-----------------------------------------------------------------------------
(* Specifications *)

Init ==
    /\ gate = [i \in Instances |-> NoGate]
    /\ attempt = [i \in Instances |-> NoAttempt]
    /\ stream = [i \in Instances |-> NoStream]
    /\ local = [i \in Instances |-> NoLocal]

\* one gate, as the program's entry point constructs it, with any arguments
Next ==
    \/ \E a \in ArgsSet : Construct(1, a)
    \/ \E b \in Blocks : AudioCallback(1, b)

Spec == Init /\ [][Next]_vars

\* the stream delivers blocks for as long as it is open
FairSpec == Spec /\ WF_vars(\E b \in Blocks : AudioCallback(1, b))

\* the arguments of the two gates of a second specification
TwoArgs == {BaseArgs, [BaseArgs EXCEPT !.threshold = -35]}

\* the blocks delivered to them
TwoBlocks == {<<0>>, <<-(Scale \div 10)>>}

\* two gates, each with its own stream
NextTwo ==
    \/ \E i \in Instances : \E a \in TwoArgs : Construct(i, a)
    \/ \E i \in Instances : \E b \in TwoBlocks : AudioCallback(i, b)

TwoSpec == Init /\ [][NextTwo]_vars

\* the arguments the specification calls valid
ValidArgs(a) ==
    a.sample_rate > 0 /\ a.block_size > 0 /\ a.attack_time > 0 /\ a.release_time > 0

\* one gate constructed with valid arguments
ValidNext ==
    \/ \E a \in {x \in ArgsSet : ValidArgs(x)} : Construct(1, a)
    \/ \E b \in Blocks : AudioCallback(1, b)

ValidSpec == Init /\ [][ValidNext]_vars

\* such a gate fed silent blocks, or loud blocks, for as long as they change it
ValidFairSpec ==
    /\ ValidSpec
    /\ WF_vars(\E b \in Blocks : Rms(b) = 0 /\ AudioCallback(1, b))
    /\ WF_vars(\E b \in Blocks : Rms(b) = Scale \div 10 /\ AudioCallback(1, b))

-----------------------------------------------------------------------------
(* Properties *)

\* instance i has processed a block
Called(i) == local[i].called

\* this step is a call of audio_callback on instance i
CallOn(i) == local'[i] # local[i]

\* the last block of instance i was all zero
LastSilent(i) == Called(i) /\ local[i].rms = 0

\* the last block of instance i was above the threshold
LastLoud(i) == Called(i) /\ local[i].rms > gate[i].threshold_amplitude

\* the distance below which rounding stops the envelope
Tolerance == Scale \div 50

\* current_gain of instance i is within Tolerance of x
GainNear(i, x) == gate[i].constructed /\ Abs(gate[i].current_gain - x) <= Tolerance

\* the attributes of a gate other than current_gain
Config(g) == [f \in DOMAIN g \ {"current_gain"} |-> g[f]]

\* C1: every call leaves current_gain strictly between its previous value and
\* the block's target gain, or at the target when it was there already.
MonotonicConvergence ==
    [][\A i \in Instances : CallOn(i) =>
         LET old == gate[i].current_gain
             new == gate'[i].current_gain
             target == local'[i].target_gain
         IN \/ old < new /\ new < target
            \/ target < new /\ new < old
            \/ old = target /\ new = target]_vars

\* C2: the target gain is 1.0 above the threshold and otherwise the larger of
\* (rms / threshold_amplitude) ** 0.1 and 0.01, hence in [0.01, 1.0]; it is 0.01
\* for rms = 0 and 1.0 for rms = threshold_amplitude.
TargetGainDecision ==
    \A i \in Instances : Called(i) =>
        LET rms == local[i].rms
            thr == gate[i].threshold_amplitude
            target == local[i].target_gain
            ratio == RoundDiv(rms * Scale, thr)
        IN /\ GateFloor <= target /\ target <= Scale
           /\ rms > thr => target = Scale
           /\ rms = thr => target = Scale
           /\ rms = 0 => target = GateFloor
           /\ rms <= thr =>
                \* target is max(r, 0.01) for a tenth root r of ratio
                \E r \in 0 .. Scale :
                    /\ target = Max(r, GateFloor)
                    /\ r > 0 => PowFine(ToFine(r - 1), 10) <= ToFine(ratio)
                    /\ r < Scale => ToFine(ratio) <= PowFine(ToFine(r + 1), 10)

TargetAtThreshold ==
    \E i \in Instances :
        /\ Called(i)
        /\ local[i].rms = gate[i].threshold_amplitude
        /\ local[i].rms > 0
        /\ local[i].target_gain = Scale

\* C3: while every block is silent, current_gain never drops below 0.01 and
\* comes and stays within rounding distance of 0.01.
SilenceStaysQuiet ==
    /\ [](\A i \in Instances : LastSilent(i) => gate[i].current_gain >= GateFloor)
    /\ \A i \in Instances :
         <>[]LastSilent(i) => <>[]GainNear(i, GateFloor)

\* C4: while every block is loud, current_gain never exceeds 1.0 and comes and
\* stays within rounding distance of 1.0; at 1.0 a loud block leaves it at 1.0.
LoudSignalPasses ==
    /\ [](\A i \in Instances : LastLoud(i) => gate[i].current_gain <= Scale)
    /\ \A i \in Instances :
         <>[]LastLoud(i) => <>[]GainNear(i, Scale)
    /\ [][\A i \in Instances :
            CallOn(i) /\ LastLoud(i)' /\ gate[i].current_gain = Scale
                => gate'[i].current_gain = Scale]_vars

\* C5: construction with a non-positive sample rate, block size, attack time or
\* release time fails with InvalidConfig and leaves no gate.
InvalidConfigRejected ==
    \A i \in Instances :
        attempt[i].result # "none" /\ ~ValidArgs(attempt[i].args) =>
            attempt[i].result = "InvalidConfig" /\ ~gate[i].constructed

\* C6: the requested volume never decides whether construction succeeds; the
\* stored volume_db is the request clamped to [-60, 12] and volume is derived
\* from the clamped value.
VolumeClamped ==
    \A i \in Instances : attempt[i].result # "none" =>
        LET a == attempt[i].args
            clamped == IF a.volume_db < -60 THEN -60
                       ELSE IF a.volume_db > 12 THEN 12 ELSE a.volume_db
        IN /\ attempt[i].result # "ok" =>
                a.sample_rate * a.attack_time = 0 \/ a.sample_rate * a.release_time = 0
           /\ attempt[i].result = "ok" =>
                /\ gate[i].constructed
                /\ gate[i].volume_db = clamped
                /\ gate[i].volume = DbToLinear(clamped)
                /\ a.volume_db >= 12 => gate[i].volume = DbToLinear(12)
                /\ a.volume_db <= -60 => gate[i].volume = DbToLinear(-60)

VolumeClampedFromAbove ==
    \E i \in Instances :
        /\ attempt[i].result = "ok"
        /\ attempt[i].args.volume_db > 12
        /\ gate[i].volume_db = 12
        /\ Called(i)

\* C7: a call writes the current_gain of its own instance only, leaves every
\* other attribute of every gate and the input block as they were, and reads
\* the current_gain the previous call on the instance left; between the calls
\* on an instance its current_gain does not change.
StateMutationFrame ==
    [][\A i \in Instances :
         /\ CallOn(i) =>
              /\ Config(gate'[i]) = Config(gate[i])
              /\ stream'[i].indata = local'[i].audio
              /\ local'[i].gain_before = gate[i].current_gain
              /\ \A j \in Instances \ {i} :
                   gate'[j] = gate[j] /\ stream'[j] = stream[j] /\ local'[j] = local[j]
         /\ ~CallOn(i) /\ gate[i].constructed => gate'[i] = gate[i]]_vars

TwoGatesApart ==
    /\ \A i \in Instances : Called(i) /\ gate[i].current_gain # local[i].gain_before
    /\ gate[1].current_gain # gate[2].current_gain

\* C8: the output block is as long as the input block and each output sample is
\* the input sample times current_gain, as the call left it, times volume.
ApplyGain ==
    \A i \in Instances : Called(i) =>
        LET audio == local[i].audio
            outdata == stream[i].outdata
        IN /\ Len(outdata) = Len(audio)
           /\ \A k \in 1 .. Len(audio) :
                outdata[k] =
                    RoundDiv(RoundDiv(audio[k] * gate[i].current_gain, Scale) * gate[i].volume,
                             Scale)

GainAppliedAfterUpdate ==
    \E i \in Instances :
        /\ Called(i)
        /\ Len(stream[i].outdata) = 2
        /\ gate[i].current_gain # local[i].gain_before
        /\ gate[i].volume # Scale
        /\ \E k \in 1 .. 2 :
             stream[i].outdata[k] # Mul(Mul(local[i].audio[k], local[i].gain_before), gate[i].volume)

\* C9: the new current_gain is old + (target - old) * (1 - coef), where coef is
\* attack_coef exactly when the target is above the old gain and release_coef
\* otherwise; with the target at the old gain the gain is unchanged.
AsymmetricEnvelope ==
    [][\A i \in Instances : CallOn(i) =>
         LET old == gate[i].current_gain
             new == gate'[i].current_gain
             target == local'[i].target_gain
             coef == local'[i].coef
         IN /\ target > old => coef = gate[i].attack_coef
            /\ target <= old => coef = gate[i].release_coef
            /\ new = old + RoundDiv((target - old) * (Scale - coef), Scale)
            /\ target = old => new = old]_vars

AttackUsed ==
    \E i \in Instances :
        /\ Called(i)
        /\ local[i].target_gain > local[i].gain_before
        /\ local[i].coef = gate[i].attack_coef
        /\ gate[i].attack_coef # gate[i].release_coef
        /\ gate[i].current_gain > local[i].gain_before

\* C10: a gate constructed with a positive sample rate, attack time and release
\* time keeps current_gain within [0.01, 1.0].
BoundedGain ==
    \A i \in Instances :
        /\ gate[i].constructed
        /\ attempt[i].args.sample_rate > 0
        /\ attempt[i].args.attack_time > 0
        /\ attempt[i].args.release_time > 0
        => GateFloor <= gate[i].current_gain /\ gate[i].current_gain <= Scale

GainFellAndRose ==
    \E i \in Instances :
        /\ Called(i)
        /\ attempt[i].args.sample_rate > 0
        /\ attempt[i].args.attack_time > 0
        /\ attempt[i].args.release_time > 0
        /\ local[i].gain_before < gate[i].current_gain
        /\ gate[i].current_gain < Scale

-----------------------------------------------------------------------------
(* The envelope of a gate constructed with valid arguments *)

\* every call leaves current_gain between its previous value and the target,
\* and moves it unless it is within Tolerance of the target
WeakConvergence ==
    [][\A i \in Instances : CallOn(i) =>
         LET old == gate[i].current_gain
             new == gate'[i].current_gain
             target == local'[i].target_gain
         IN /\ Min(old, target) <= new /\ new <= Max(old, target)
            /\ Abs(target - old) > Tolerance => new # old]_vars

====
